---- MODULE Spec2Model ----
(***************************************************************************)
(* A model of the apollo Reddit scraper (src/src/apollo): RedditScraper,   *)
(* the output writer and the three CLI commands.  The platform client      *)
(* (PRAW) is the environment: what it answers to each request is an input  *)
(* of the command that issues the request.                                 *)
(*                                                                         *)
(* Python strings that the code transforms (str.lower, str.replace) are    *)
(* sequences of one-character strings; all other strings are atoms.        *)
(***************************************************************************)
EXTENDS Integers, Sequences, FiniteSets, TLC

VARIABLES now, client, scrape, store, files, exit, fetched, validated

vars == <<now, client, scrape, store, files, exit, fetched, validated>>

(***************************************************************************)
(* Bounds of the model.                                                    *)
(***************************************************************************)
\* longest listing the platform yields to one request
MaxPosts == 3
\* seconds the wall clock may advance past T0
MaxClock == 1
\* longest comment forest handed to fetch_comments on its own
MaxNodes == 4

(***************************************************************************)
(* Constants of the program.                                               *)
(***************************************************************************)
\* reddit.py:226  current_time - 15720000
HalfYearSeconds == 15720000
\* reddit.py:181, 228  submission.comment_limit = 10
CommentLimit == 10

Day == 24 * 60 * 60
\* the instant the stub platform's submissions are dated against
T0 == 17 * 100000000

(***************************************************************************)
(* Python strings as character sequences.                                  *)
(***************************************************************************)
STR_json == <<"j", "s", "o", "n">>
STR_JSON == <<"J", "S", "O", "N">>
STR_dataclass == <<"d", "a", "t", "a", "c", "l", "a", "s", "s">>
STR_Dataclass == <<"D", "a", "t", "a", "c", "l", "a", "s", "s">>
STR_text == <<"t", "e", "x", "t">>

\* str.lower() on one character
LowerChar(c) ==
    CASE c = "J" -> "j"
      [] c = "S" -> "s"
      [] c = "O" -> "o"
      [] c = "N" -> "n"
      [] c = "D" -> "d"
      [] OTHER -> c

\* str.lower()
Lower(s) == [i \in 1..Len(s) |-> LowerChar(s[i])]

\* str.replace(old, "") for a two-character old: every non-overlapping
\* occurrence, scanning from the left, is removed
RECURSIVE Remove2(_, _)
Remove2(s, old) ==
    IF Len(s) < 2 THEN s
    ELSE IF s[1] = old[1] /\ s[2] = old[2]
         THEN Remove2(SubSeq(s, 3, Len(s)), old)
         ELSE <<s[1]>> \o Remove2(Tail(s), old)

(***************************************************************************)
(* Exceptions.  e.bases is the set of classes an exception is an instance  *)
(* of; an except clause catches e iff the class it names is among them.    *)
(***************************************************************************)
NoError == [type |-> "None", msg |-> "", bases |-> {}]

Exc(type, bases) == [type |-> type, msg |-> "", bases |-> bases \cup {type}]

ValueError(msg) == [type |-> "ValueError", msg |-> msg, bases |-> {"ValueError", "Exception"}]

AttributeError(msg) ==
    [type |-> "AttributeError", msg |-> msg, bases |-> {"AttributeError", "Exception"}]

TypeError(msg) == [type |-> "TypeError", msg |-> msg, bases |-> {"TypeError", "Exception"}]

\* what the property read of the validation probe can end with
Forbidden == Exc("prawcore.exceptions.Forbidden", {"Exception"})
NotFound == Exc("prawcore.exceptions.NotFound", {"Exception"})
Redirect == Exc("prawcore.exceptions.Redirect", {"Exception"})
PrawRequestException == Exc("prawcore.exceptions.RequestException", {"Exception"})
RequestsException ==
    Exc("requests.exceptions.ConnectionError",
        {"requests.exceptions.RequestException", "OSError", "Exception"})

ProbeErrors == {Forbidden, NotFound, Redirect, PrawRequestException, RequestsException}

\* the transport failure of a search or listing request: the class the
\* except clause of search_for_keyword names
TransportErrors == {RequestsException}

Catches(class, e) == class \in e.bases

(***************************************************************************)
(* The platform's data.  A comment forest, flattened by comments.list(),   *)
(* is a sequence of Comment nodes and MoreComments placeholders.  The      *)
(* author of a comment or submission is None when the account is deleted.  *)
(***************************************************************************)
None == "<None>"

\* str(x) / f"{x}" of an author: a Redditor prints as its name, None as "None"
Str(x) == IF x = None THEN "None" ELSE x

PrawComment(author, score, body) ==
    [kind |-> "Comment", author |-> author, score |-> score, body |-> body]

MoreComments == [kind |-> "MoreComments", author |-> None, score |-> 0, body |-> ""]

CommentA == PrawComment("a", 5, "x")
CommentB == PrawComment("b", 3, "y")
CommentDeleted == PrawComment(None, 1, "z")

Nodes == {CommentA, CommentB, CommentDeleted, MoreComments}

\* a forest in which the platform returned more genuine comments than the
\* requested comment_limit (the limit is a hint of the request)
LongTree == [i \in 1..(CommentLimit + 1) |-> PrawComment("a", i, "x")]

PrawSubmission(id, author, age, comments) ==
    [id |-> id, author |-> author, score |-> 7, title |-> "title",
     selftext |-> "selftext", permalink |-> "/r/testsub/comments/" ,
     num_comments |-> Len(comments), created_utc |-> T0 - age,
     comments |-> comments]

\* the submissions of the stub subreddit, by their age at T0
Submissions ==
    { PrawSubmission("s1", "a", 10 * Day, <<CommentA, MoreComments, CommentB>>),
      PrawSubmission("s2", "b", 200 * Day, <<>>),
      PrawSubmission("s3", None, 183 * Day - 1, <<CommentB>>),
      PrawSubmission("s4", "a", HalfYearSeconds, <<CommentDeleted>>),
      PrawSubmission("s5", "b", HalfYearSeconds - 1, <<MoreComments>>),
      PrawSubmission("s6", "a", 5 * Day, LongTree) }

Sub(id) == CHOOSE s \in Submissions : s.id = id

\* a listing never holds a submission twice
Listings ==
    { l \in UNION { [1..n -> Submissions] : n \in 0..MaxPosts } :
        \A i, j \in DOMAIN l : i # j => l[i].id # l[j].id }

\* where the transport fails in a lazily paginated request: when the
\* request is created, when the iteration fetches the page after the
\* submissions in the listing, or when the comments of the first processed
\* submission are fetched
NoFault == [at |-> "none", exc |-> NoError]

Faults == {NoFault} \cup [at : {"create", "iterate", "comments"}, exc : TransportErrors]

\* the answers of the platform to the requests of one invocation
Clients ==
    { c \in [probe : {NoError} \cup ProbeErrors, listing : Listings, fault : Faults] :
        /\ (c.probe # NoError => c.listing = <<>> /\ c.fault = NoFault)
        /\ (c.fault.at = "create" => c.listing = <<>>) }

NoClient == [probe |-> NoError, listing |-> <<>>, fault |-> NoFault]

Names == { <<"t">>, <<"r", "/", "t">> }
Queries == {"q"}
Sortings == {"hot", "top"}
Intervals == {"day"}
OutputTypes == {STR_json, STR_JSON, STR_dataclass, STR_Dataclass, STR_text}

(***************************************************************************)
(* Results of a call: what it returned or raised, and the requests it      *)
(* issued to the platform client, in order.                                *)
(***************************************************************************)
Return(v, calls) == [status |-> "returned", value |-> v, error |-> NoError, calls |-> calls]

Raise(e, calls) == [status |-> "raised", value |-> <<>>, error |-> e, calls |-> calls]

Call(what, handle, args) == [call |-> what, handle |-> handle, args |-> args]

(***************************************************************************)
(* RedditScraper (src/src/apollo/reddit.py).                               *)
(***************************************************************************)
\* {"score": com.score, "author": f"{com.author}", "body": com.body}
CommentDict(com) == [score |-> com.score, author |-> Str(com.author), body |-> com.body]

\* fetch_comments without the isinstance test
fetch_comments_unfiltered(comments) ==
    [i \in DOMAIN comments |-> CommentDict(comments[i])]

RECURSIVE fetch_comments(_)
fetch_comments(comments) ==
    IF comments = <<>> THEN <<>>
    ELSE LET com == Head(comments)
         IN  (IF com.kind = "Comment" THEN <<CommentDict(com)>> ELSE <<>>)
             \o fetch_comments(Tail(comments))

\* validate_subreddit whose except clause returns True as well
validate_subreddit_always_true(c, subreddit_name) ==
    Return(TRUE, <<Call("subreddit_type", subreddit_name, <<>>)>>)

\* validate_subreddit whose except clause names requests' RequestException
validate_subreddit_narrow_except(c, subreddit_name) ==
    LET calls == <<Call("subreddit_type", subreddit_name, <<>>)>>
    IN  IF c.probe = NoError THEN Return(TRUE, calls)
        ELSE IF Catches("requests.exceptions.RequestException", c.probe)
             THEN Return(FALSE, calls)
             ELSE Raise(c.probe, calls)

\* try: self.client.subreddit(name).subreddit_type; return True
\* except Exception: return False
validate_subreddit(c, subreddit_name) ==
    LET calls == <<Call("subreddit_type", subreddit_name, <<>>)>>
    IN  IF c.probe = NoError THEN Return(TRUE, calls)
        ELSE IF Catches("Exception", c.probe) THEN Return(FALSE, calls)
        ELSE Raise(c.probe, calls)

\* Post(post_id=..., ..., top_comments=self.fetch_comments(submission.comments.list()))
NewPost(submission) ==
    [post_id |-> submission.id,
     author |-> Str(submission.author),
     score |-> submission.score,
     title |-> submission.title,
     body |-> submission.selftext,
     url |-> <<"https://reddit.com", submission.permalink>>,
     num_comments |-> submission.num_comments,
     top_comments |-> fetch_comments(submission.comments)]

\* post.__dict__ if output == "json" else post
Entry(post, output) ==
    IF output = STR_json THEN [type |-> "dict", fields |-> post]
    ELSE [type |-> "Post", fields |-> post]

\* submission.comment_sort = "confidence"; submission.comment_limit = 10;
\* submission.comments.list()
CommentsCall(submission) == Call("comments", submission.id, <<"confidence", CommentLimit>>)

\* the search loop salvaging what it can: a submission whose comments cannot
\* be fetched is skipped and the loop goes on
RECURSIVE SearchLoop_salvage(_, _, _, _, _)
SearchLoop_salvage(c, results, output, calls, post_data) ==
    IF results = <<>>
    THEN IF c.fault.at = "iterate" THEN Raise(c.fault.exc, calls)
         ELSE Return(post_data, calls)
    ELSE LET submission == Head(results)
             calls2 == Append(calls, CommentsCall(submission))
         IN  IF c.fault.at = "comments"
             THEN SearchLoop_salvage(c, Tail(results), output, calls2, post_data)
             ELSE SearchLoop_salvage(c, Tail(results), output, calls2,
                                     Append(post_data, Entry(NewPost(submission), output)))

\* for submission in search_results: ...; return post_data
RECURSIVE SearchLoop(_, _, _, _, _)
SearchLoop(c, results, output, calls, post_data) ==
    IF results = <<>>
    THEN IF c.fault.at = "iterate" THEN Raise(c.fault.exc, calls)
         ELSE Return(post_data, calls)
    ELSE LET submission == Head(results)
             calls2 == Append(calls, CommentsCall(submission))
         IN  IF c.fault.at = "comments" THEN Raise(c.fault.exc, calls2)
             ELSE SearchLoop(c, Tail(results), output, calls2,
                             Append(post_data, Entry(NewPost(submission), output)))

search_for_keyword(c, subreddit_name, search_query, sorting, interval, output) ==
    LET v == validate_subreddit(c, subreddit_name)
    IN  IF v.status = "raised" THEN v
        ELSE IF ~v.value THEN Raise(ValueError("Invalid subreddit"), v.calls)
        ELSE LET calls == Append(v.calls,
                                 Call("search", subreddit_name,
                                      <<search_query, sorting, interval>>))
             IN  IF c.fault.at = "create"
                 THEN IF Catches("requests.exceptions.RequestException", c.fault.exc)
                      THEN Raise(ValueError("An error occurred"), calls)
                      ELSE Raise(c.fault.exc, calls)
                 ELSE SearchLoop(c, c.listing, output, calls, <<>>)

\* the window test with >= for >
InWindow_inclusive(created_utc, current_time) ==
    created_utc >= current_time - HalfYearSeconds

\* the window test with a cutoff of 183 days
InWindow_183_days(created_utc, current_time) == created_utc > current_time - 183 * Day

\* submission.created_utc > current_time - 15720000
InWindow(created_utc, current_time) == created_utc > current_time - HalfYearSeconds

\* for submission in top_posts: if <in window>: ...; return post_data
RECURSIVE HalfYearLoop(_, _, _, _, _, _)
HalfYearLoop(c, top_posts, current_time, output, calls, post_data) ==
    IF top_posts = <<>>
    THEN IF c.fault.at = "iterate" THEN Raise(c.fault.exc, calls)
         ELSE Return(post_data, calls)
    ELSE LET submission == Head(top_posts)
             calls2 == Append(calls, CommentsCall(submission))
         IN  IF InWindow(submission.created_utc, current_time)
             THEN IF c.fault.at = "comments" THEN Raise(c.fault.exc, calls2)
                  ELSE HalfYearLoop(c, Tail(top_posts), current_time, output, calls2,
                                    Append(post_data, Entry(NewPost(submission), output)))
             ELSE HalfYearLoop(c, Tail(top_posts), current_time, output, calls, post_data)

posts_from_half_year(c, current_time, subreddit_name, output) ==
    LET v == validate_subreddit(c, subreddit_name)
    IN  IF v.status = "raised" THEN v
        ELSE IF ~v.value THEN Raise(ValueError("Invalid subreddit"), v.calls)
        ELSE LET calls == Append(v.calls,
                                 Call("top", Remove2(subreddit_name, <<"r", "/">>),
                                      <<"year">>))
             IN  IF c.fault.at = "create" THEN Raise(c.fault.exc, calls)
                 ELSE HalfYearLoop(c, c.listing, current_time, output, calls, <<>>)

\* [post.top_comments for post in top_posts]: attribute access on each
\* element, which a dict does not support
TopComments(top_posts, calls) ==
    IF \E i \in DOMAIN top_posts : top_posts[i].type = "dict"
    THEN Raise(AttributeError("'dict' object has no attribute 'top_comments'"), calls)
    ELSE Return([i \in DOMAIN top_posts |->
                    [type |-> "list", fields |-> top_posts[i].fields.top_comments]],
                calls)

\* top_posts = self.posts_from_half_year(subreddit_name): output is not
\* passed on, so the callee's default "json" applies
comments_from_half_year(c, current_time, subreddit_name, output) ==
    LET r == posts_from_half_year(c, current_time, subreddit_name, STR_json)
    IN  IF r.status = "raised" THEN r
        ELSE TopComments(r.value, r.calls)

(***************************************************************************)
(* OutputManager (src/src/apollo/output.py).  A file is its extension and  *)
(* what was written to it; its name is a fresh random identifier.          *)
(***************************************************************************)
\* json.dump raises TypeError on an object that is no dict, list, str or number
JsonSerializable(result) == \A i \in DOMAIN result : result[i].type # "Post"

Stored(file) == [status |-> "returned", error |-> NoError, files |-> <<file>>]

StoreFailed(e, file) == [status |-> "raised", error |-> e, files |-> <<file>>]

\* store_output whose last branch dumps the text instead of raising
store_output_dump_fallback(result, output_type) ==
    LET lowered == Lower(output_type)
        file_ext == IF lowered = STR_json THEN "json" ELSE "txt"
        opened == [ext |-> file_ext, content |-> <<>>]
    IN  IF lowered = STR_json
        THEN IF JsonSerializable(result)
             THEN Stored([opened EXCEPT !.content = <<"json", result>>])
             ELSE StoreFailed(TypeError("Object of type Post is not JSON serializable"),
                              [opened EXCEPT !.content = <<"json-partial">>])
        ELSE Stored([opened EXCEPT !.content = <<"repr", result>>])

store_output(result, output_type) ==
    LET lowered == Lower(output_type)
        file_ext == IF lowered = STR_json THEN "json" ELSE "txt"
        \* open(file_path, "w") creates the file before anything is written
        opened == [ext |-> file_ext, content |-> <<>>]
    IN  IF lowered = STR_json
        THEN IF JsonSerializable(result)
             THEN Stored([opened EXCEPT !.content = <<"json", result>>])
             ELSE StoreFailed(TypeError("Object of type Post is not JSON serializable"),
                              [opened EXCEPT !.content = <<"json-partial">>])
        ELSE IF lowered = STR_dataclass
             THEN Stored([opened EXCEPT !.content = <<"repr", result>>])
             ELSE StoreFailed(ValueError("Invalid output type"), opened)

NotStored == [status |-> "none", error |-> NoError, files |-> <<>>]

(***************************************************************************)
(* State.  The variables describe the latest command invocation: the       *)
(* answers the platform gave it (client), the scraper call it made         *)
(* (scrape), its store_output call (store), the files it wrote (files) and *)
(* its exit code (exit, -1 before any command ran).  now is the wall       *)
(* clock.  fetched and validated are the calls of fetch_comments and of     *)
(* validate_subreddit made directly on the scraper object.                 *)
(***************************************************************************)
NoScrape ==
    [op |-> "none", subreddit_name |-> <<>>, output |-> <<>>, current_time |-> 0,
     result |-> Return(<<>>, <<>>)]

NoFetch == [called |-> FALSE, comments |-> <<>>, returned |-> <<>>]

NoValidate ==
    [called |-> FALSE, probe |-> NoError, subreddit_name |-> <<>>,
     result |-> Return(FALSE, <<>>)]

Init ==
    /\ now = T0
    /\ client = NoClient
    /\ scrape = NoScrape
    /\ store = NotStored
    /\ files = <<>>
    /\ exit = -1
    /\ fetched = NoFetch
    /\ validated = NoValidate

\* the wall clock advances until the command starts
Tick ==
    /\ exit = -1
    /\ now < T0 + MaxClock
    /\ now' = now + 1
    /\ UNCHANGED <<client, scrape, store, files, exit, fetched, validated>>

\* a command that reports success once the scraper returned, whatever
\* store_output did
Command_ignores_store_error(op, c, subreddit_name, output, r) ==
    LET st == IF r.status = "returned" THEN store_output(r.value, output) ELSE NotStored
    IN  /\ client' = c
        /\ scrape' = [op |-> op, subreddit_name |-> subreddit_name, output |-> output,
                      current_time |-> now, result |-> r]
        /\ store' = [status |-> st.status, error |-> st.error]
        /\ files' = st.files
        /\ exit' = IF r.status = "returned" THEN 0 ELSE 1
        /\ UNCHANGED <<now, fetched, validated>>

\* a command of cli.py: the scraper call, then storage.store_output(data,
\* output_type=output); an exception ends the process with exit code 1.
\* One process runs one command (cli() dispatches once and exits).
Command(op, c, subreddit_name, output, r) ==
    LET st == IF r.status = "returned" THEN store_output(r.value, output) ELSE NotStored
    IN  /\ client' = c
        /\ scrape' = [op |-> op, subreddit_name |-> subreddit_name, output |-> output,
                      current_time |-> now, result |-> r]
        /\ store' = [status |-> st.status, error |-> st.error]
        /\ files' = st.files
        /\ exit' = IF r.status = "returned" /\ st.status = "returned" THEN 0 ELSE 1
        /\ UNCHANGED <<now, fetched, validated>>

cli_search_for_keyword ==
    /\ exit = -1
    /\ \E c \in Clients, subreddit_name \in Names, search_query \in Queries,
          sorting \in Sortings, interval \in Intervals, output \in OutputTypes :
           Command("search_for_keyword", c, subreddit_name, output,
                   search_for_keyword(c, subreddit_name, search_query, sorting,
                                      interval, output))

cli_posts_from_half_year ==
    /\ exit = -1
    /\ \E c \in Clients, subreddit_name \in Names, output \in OutputTypes :
           Command("posts_from_half_year", c, subreddit_name, output,
                   posts_from_half_year(c, now, subreddit_name, output))

cli_comments_from_half_year ==
    /\ exit = -1
    /\ \E c \in Clients, subreddit_name \in Names, output \in OutputTypes :
           Command("comments_from_half_year", c, subreddit_name, output,
                   comments_from_half_year(c, now, subreddit_name, output))

Next ==
    \/ Tick
    \/ cli_search_for_keyword
    \/ cli_posts_from_half_year
    \/ cli_comments_from_half_year

Spec == Init /\ [][Next]_vars

(***************************************************************************)
(* The scraper's helpers called directly: fetch_comments over every forest *)
(* of at most MaxNodes nodes, validate_subreddit over every answer of the  *)
(* platform to the probe.                                                  *)
(***************************************************************************)
Forests == UNION { [1..n -> Nodes] : n \in 0..MaxNodes }

Untouched == ~fetched.called /\ ~validated.called

call_fetch_comments ==
    /\ Untouched
    /\ \E comments \in Forests :
           fetched' = [called |-> TRUE, comments |-> comments,
                       returned |-> fetch_comments(comments)]
    /\ UNCHANGED <<now, client, scrape, store, files, exit, validated>>

call_validate_subreddit ==
    /\ Untouched
    /\ \E probe \in {NoError} \cup ProbeErrors, subreddit_name \in Names :
           validated' = [called |-> TRUE, probe |-> probe,
                         subreddit_name |-> subreddit_name,
                         result |-> validate_subreddit([NoClient EXCEPT !.probe = probe],
                                                       subreddit_name)]
    /\ UNCHANGED <<now, client, scrape, store, files, exit, fetched>>

NextUnit ==
    \/ call_fetch_comments
    \/ call_validate_subreddit

SpecUnit == Init /\ [][NextUnit]_vars

(***************************************************************************)
(* Properties.                                                             *)
(***************************************************************************)
Returned == scrape.result.status = "returned"

Raised == scrape.result.status = "raised"

Accessible == client.probe = NoError

IsScrape(ops) == scrape.op \in ops

\* the ids of the posts a scraper call returned, in order
ReturnedIds ==
    [i \in DOMAIN scrape.result.value |-> scrape.result.value[i].fields.post_id]

Listed(id) == \E k \in DOMAIN client.listing : client.listing[k].id = id

IsReturned(id) == \E i \in DOMAIN ReturnedIds : ReturnedIds[i] = id

\* C1: every post posts_from_half_year returns was created at or after
\* current_time - 15720000; a listed submission created exactly at
\* current_time - 15720000 is not returned and one created a second later is.
C1_WindowBoundary ==
    (IsScrape({"posts_from_half_year"}) /\ Accessible /\ Returned) =>
        /\ \A i \in DOMAIN ReturnedIds :
               /\ Listed(ReturnedIds[i])
               /\ Sub(ReturnedIds[i]).created_utc >= scrape.current_time - 15720000
        /\ \A k \in DOMAIN client.listing :
               LET s == client.listing[k]
               IN  /\ s.created_utc = scrape.current_time - 15720000 => ~IsReturned(s.id)
                   /\ s.created_utc = scrape.current_time - 15720000 + 1 => IsReturned(s.id)

C1_Witness ==
    /\ IsScrape({"posts_from_half_year"}) /\ Accessible /\ Returned
    /\ \E k \in DOMAIN client.listing :
           /\ client.listing[k].created_utc = scrape.current_time - 15720000
           /\ ~IsReturned(client.listing[k].id)
    /\ \E k \in DOMAIN client.listing :
           /\ client.listing[k].created_utc = scrape.current_time - 15720000 + 1
           /\ IsReturned(client.listing[k].id)

\* the scenario of C2: an accessible subreddit whose top-of-year listing is
\* three submissions aged 10 days, 200 days and 183 days less one second
C2_Scenario ==
    /\ IsScrape({"posts_from_half_year"}) /\ Accessible /\ client.fault = NoFault
    /\ Len(client.listing) = 3
    /\ client.listing[1].created_utc = scrape.current_time - 10 * Day
    /\ client.listing[2].created_utc = scrape.current_time - 200 * Day
    /\ client.listing[3].created_utc = scrape.current_time - 183 * Day + 1

\* C2 as stated: in the scenario the first and the third submission are
\* returned, in that order, and not the second.
C2_FirstAndThird ==
    C2_Scenario =>
        /\ Returned
        /\ ReturnedIds = <<client.listing[1].id, client.listing[3].id>>

\* C2 amended: in the scenario exactly the first submission is returned; the
\* third, 183 days less one second old, lies before the cutoff like the second.
C2_FirstOnly ==
    C2_Scenario =>
        /\ Returned
        /\ ReturnedIds = <<client.listing[1].id>>

C2_Witness == C2_Scenario /\ Returned /\ Len(ReturnedIds) = 1

\* C3: posts_from_half_year retains a listed submission if and only if it
\* was created within the 26 weeks (182 days) before the call time.
C3_TwentySixWeeks ==
    (IsScrape({"posts_from_half_year"}) /\ Accessible /\ Returned) =>
        \A k \in DOMAIN client.listing :
            IsReturned(client.listing[k].id)
                <=> client.listing[k].created_utc > scrape.current_time - 26 * 7 * Day

\* C4: every post search_for_keyword or posts_from_half_year produces holds
\* at most CommentLimit top comments, whatever forest the platform returned.
C4_TopCommentsBounded ==
    (IsScrape({"search_for_keyword", "posts_from_half_year"}) /\ Returned) =>
        \A i \in DOMAIN scrape.result.value :
            Len(scrape.result.value[i].fields.top_comments) <= CommentLimit

\* the positions of the genuine comments of the forest given to fetch_comments
GenuineAt == { i \in DOMAIN fetched.comments : fetched.comments[i].kind = "Comment" }

\* the rank of position i among the genuine comments
Rank(i) == Cardinality({ j \in GenuineAt : j <= i })

\* C5: fetch_comments returns the genuine comments of its input, in input
\* order, one entry each, and nothing for a placeholder node; the forest
\* [Comment(a,5,x), Placeholder, Comment(b,3,y)] gives the two comments.
C5_GenuineInOrder ==
    fetched.called =>
        /\ Len(fetched.returned) = Cardinality(GenuineAt)
        /\ \A i \in GenuineAt :
               LET com == fetched.comments[i]
                   out == fetched.returned[Rank(i)]
               IN  /\ out.score = com.score
                   /\ out.body = com.body
                   /\ out.author = (IF com.author = None THEN "None" ELSE com.author)
        /\ fetched.comments = <<CommentA, MoreComments, CommentB>> =>
               fetched.returned = << [score |-> 5, author |-> "a", body |-> "x"],
                                     [score |-> 3, author |-> "b", body |-> "y"] >>

C5_Witness ==
    /\ fetched.called
    /\ fetched.comments = <<CommentA, MoreComments, CommentB>>
    /\ Len(fetched.returned) = 2

IsQuery(call) == call.call \in {"search", "top"}

\* C6: when the probe reports the subreddit inaccessible, search_for_keyword
\* and posts_from_half_year raise ValueError "Invalid subreddit" and the
\* invocation has issued no search or listing request.
C6_InvalidBeforeQuery ==
    (IsScrape({"search_for_keyword", "posts_from_half_year"}) /\ ~Accessible) =>
        /\ Raised
        /\ scrape.result.error.type = "ValueError"
        /\ scrape.result.error.msg = "Invalid subreddit"
        /\ \A i \in DOMAIN scrape.result.calls : ~IsQuery(scrape.result.calls[i])

C6_Witness ==
    /\ IsScrape({"search_for_keyword"})
    /\ client.probe = NotFound
    /\ Raised
    /\ Len(scrape.result.calls) = 1

\* C7: validate_subreddit raises nothing; it returns true when the property
\* read succeeds and false for every failure of the read.
C7_ProbeSwallowed ==
    validated.called =>
        /\ validated.result.status = "returned"
        /\ validated.result.value = (validated.probe.type = "None")

C7_Witness ==
    /\ validated.called
    /\ validated.probe = PrawRequestException
    /\ validated.result.status = "returned"
    /\ validated.result.value = FALSE

\* C8: after a successful validation, every failure of search_for_keyword or
\* posts_from_half_year reaches the caller as ValueError "An error occurred".
C8_TransportMapped ==
    (IsScrape({"search_for_keyword", "posts_from_half_year"}) /\ Accessible /\ Raised) =>
        /\ scrape.result.error.type = "ValueError"
        /\ scrape.result.error.msg = "An error occurred"

\* what posts_from_half_year returns for the platform state, time and
\* arguments of the latest command
SamePosts ==
    posts_from_half_year(client, scrape.current_time, scrape.subreddit_name, scrape.output)

\* C9: for an accessible subreddit, whenever posts_from_half_year returns,
\* comments_from_half_year returns too, with one entry per post, in order,
\* each the post's top_comments.
C9_CommentsPerPost ==
    (IsScrape({"comments_from_half_year"}) /\ Accessible /\ SamePosts.status = "returned") =>
        /\ Returned
        /\ Len(scrape.result.value) = Len(SamePosts.value)
        /\ \A i \in DOMAIN SamePosts.value :
               scrape.result.value[i].fields = SamePosts.value[i].fields.top_comments

JsonSpellings == {STR_json, STR_JSON}

DumpSpellings == {STR_dataclass, STR_Dataclass}

\* C10: store_output accepts two formats, whatever the letter case of the
\* value: json, written to a .json file, and the plain dump, written to a
\* .txt file; for every other value it raises ValueError "Invalid output type".
C10_TwoFormats ==
    store.status # "none" =>
        /\ (store.status = "raised" /\ store.error.type = "ValueError"
                /\ store.error.msg = "Invalid output type")
               <=> scrape.output \notin (JsonSpellings \cup DumpSpellings)
        /\ scrape.output \in JsonSpellings => files[1].ext = "json"
        /\ scrape.output \in DumpSpellings =>
               /\ store.status = "returned"
               /\ files[1].ext = "txt"
               /\ files[1].content[1] = "repr"
        /\ (scrape.output \in JsonSpellings /\ store.status = "returned") =>
               files[1].content[1] = "json"

C10_Witness ==
    /\ store.status = "raised"
    /\ scrape.output = STR_text
    /\ store.error.msg = "Invalid output type"

Ran == scrape.op # "none"

\* C11: a command that raises no error exits 0 and has written exactly one
\* output file; a command in which the scraper or store_output raised exits
\* nonzero.
C11_OneFileExitCode ==
    Ran =>
        /\ (Raised \/ store.status = "raised") => exit # 0
        /\ (Returned /\ store.status = "returned") => (exit = 0 /\ Len(files) = 1)
        /\ exit = 0 => (Returned /\ store.status = "returned" /\ Len(files) = 1)

C11_Witness ==
    /\ IsScrape({"posts_from_half_year"})
    /\ Len(scrape.result.value) > 0
    /\ store.status = "returned"
    /\ exit = 0
    /\ Len(files) = 1

CallsOf(kinds) ==
    { i \in DOMAIN scrape.result.calls : scrape.result.calls[i].call \in kinds }

LastCall == scrape.result.calls[Len(scrape.result.calls)]

\* C12: an invocation issues at most one validation probe and at most one
\* search or listing query; once a platform request has failed it issues no
\* further request and raises, returning nothing.
C12_NoRetry ==
    Ran =>
        /\ Cardinality(CallsOf({"subreddit_type"})) <= 1
        /\ Cardinality(CallsOf({"search", "top"})) <= 1
        /\ ~Accessible =>
               /\ Raised
               /\ Len(scrape.result.calls) = 1
               /\ scrape.result.value = <<>>
        /\ (Accessible /\ client.fault.at = "create") =>
               /\ Raised
               /\ IsQuery(LastCall)
               /\ scrape.result.value = <<>>
        /\ (Accessible /\ client.fault.at = "iterate") =>
               /\ Raised
               /\ scrape.result.value = <<>>
        /\ (Accessible /\ client.fault.at = "comments" /\ CallsOf({"comments"}) # {}) =>
               /\ Raised
               /\ Cardinality(CallsOf({"comments"})) = 1
               /\ LastCall.call = "comments"
               /\ scrape.result.value = <<>>

C12_Witness ==
    /\ IsScrape({"search_for_keyword"})
    /\ Accessible
    /\ client.fault.at = "comments"
    /\ Len(client.listing) >= 2
    /\ Raised
    /\ Cardinality(CallsOf({"comments"})) = 1

\* C13: whenever store_output treats the output value as json, the records
\* the scraper returned are dicts and the serialization does not fail on
\* their type.
C13_FormatAgreement ==
    (Ran /\ Returned /\ scrape.output \in JsonSpellings) =>
        /\ \A i \in DOMAIN scrape.result.value : scrape.result.value[i].type # "Post"
        /\ store.error.type # "TypeError"

\* C14: when store_output raises the unsupported-format error, no output
\* file has been created.
C14_NoFileOnRejectedFormat ==
    (store.status = "raised" /\ store.error.type = "ValueError"
        /\ store.error.msg = "Invalid output type") => files = <<>>

\* C15: the handle of the search or listing request is the handle the
\* validation probe checked.
C15_SameHandle ==
    IsScrape({"search_for_keyword", "posts_from_half_year"}) =>
        \A i \in CallsOf({"subreddit_type"}), j \in CallsOf({"search", "top"}) :
            scrape.result.calls[j].handle = scrape.result.calls[i].handle

====
